---- MODULE Spec2Model ----
(***************************************************************************)
(* A model of geoviz: the name normaliser, the CBSA expander and the       *)
(* geo-join (src/preprocess.py and the older copies in src/choropleth.py), *)
(* the palette table built when src/params.py is loaded, and the color     *)
(* mapper of src/choropleth.py.                                            *)
(*                                                                         *)
(* Strings the code takes apart (area names) are sequences of one-letter   *)
(* strings.  Every cell of a table is a sequence of strings, so that cells *)
(* can be compared with each other: a name is spelled letter by letter, a  *)
(* code the program never takes apart (a FIPS or CBSA code) is a sequence  *)
(* of one string.  A table is a record [cols, rows]: the set of its column *)
(* names and the sequence of its rows, a row being a function from the     *)
(* column names to cells.                                                  *)
(***************************************************************************)
EXTENDS Integers, Sequences, FiniteSets, TLC

VARIABLES
    \* strip_name
    name, remove, stripped, name_pc,
    \* merge_to_geodf / cbsa_to_fips
    shape_df, file_or_df, from_csv, omb, scenario, call, local_df, fips_df,
    geo_df, no_shape, geo_df2, no_shape2, join_pc,
    \* params.py load and make_color_mapper
    PALETTES, heap, y_values, y_type, formatting, mapper, scale_pc

nameVars == <<name, remove, stripped, name_pc>>
joinVars == <<shape_df, file_or_df, from_csv, omb, scenario, call, local_df,
              fips_df, geo_df, no_shape, geo_df2, no_shape2, join_pc>>
scaleVars == <<PALETTES, heap, y_values, y_type, formatting, mapper, scale_pc>>
vars == <<nameVars, joinVars, scaleVars>>

(***************************************************************************)
(* Bounds of the model.                                                    *)
(***************************************************************************)
MaxNameLen == 5
MaxShapes == 3
MaxRows == 2
MaxOmb == 3
MaxValues == 2

(***************************************************************************)
(* Characters and strings.                                                 *)
(***************************************************************************)
Alphabet == {" ", "c", "i", "t", "y", "C"}

\* str.lower() on one character of the alphabet
LowerChar(ch) == IF ch = "C" THEN "c" ELSE ch

\* str.lower()
Lower(s) == [i \in 1..Len(s) |-> LowerChar(s[i])]

\* the index of the first " " of s, 0 when there is none
FirstSpace(s) ==
    IF \E i \in 1..Len(s) : s[i] = " "
    THEN CHOOSE i \in 1..Len(s) : s[i] = " " /\ \A j \in 1..(i-1) : s[j] # " "
    ELSE 0

\* str.split(' '): cut at every single space, keeping empty pieces
RECURSIVE Split(_)
Split(s) ==
    LET i == FirstSpace(s)
    IN  IF i = 0 THEN <<s>>
        ELSE <<SubSeq(s, 1, i-1)>> \o Split(SubSeq(s, i+1, Len(s)))

\* ' '.join(words)
RECURSIVE Join(_)
Join(words) ==
    IF Len(words) = 0 THEN <<>>
    ELSE IF Len(words) = 1 THEN words[1]
    ELSE words[1] \o <<" ">> \o Join(Tail(words))

\* params.LSAD, the legal/statistical area descriptions
LSAD == { <<"c","o","u","n","t","y">>, <<"p","a","r","i","s","h">>,
          <<"c","i","t","y">>, <<"b","o","r","o","u","g","h">>,
          <<"c","t","y","&","b","o","r">>, <<"m","u","n","y">>,
          <<"m","u","n","i","c","i","p","i","o">>,
          <<"m","u","n","i","c","i","p","a","l","i","t","y">> }

\* the remove argument: None (the default) or a list of suffixes
RemoveNone == [is_none |-> TRUE, items |-> {}]
RemoveList(items) == [is_none |-> FALSE, items |-> items]

\* strip_name(name, remove)
strip_name(nm, rem) ==
    LET rlist == IF rem.is_none THEN LSAD ELSE rem.items
        words == Split(nm)
    IN  IF Lower(words[Len(words)]) \in rlist
        THEN Join(SubSeq(words, 1, Len(words) - 1))
        ELSE nm

(***************************************************************************)
(* Tables and pandas.DataFrame.merge.                                      *)
(***************************************************************************)
\* the missing cell pandas fills in (numpy.nan)
NaN == <<"NaN">>

Table(cols, rows) == [cols |-> cols, rows |-> rows]

\* the set of cells of one column: set(df[col])
ColumnSet(df, col) == { df.rows[i][col] : i \in 1..Len(df.rows) }

RECURSIVE ConcatAll(_)
ConcatAll(seqs) ==
    IF Len(seqs) = 0 THEN <<>> ELSE Head(seqs) \o ConcatAll(Tail(seqs))

\* the column names both sides have; a key column with one name on both
\* sides is shared, not duplicated
Overlap(lcols, rcols, left_on, right_on) ==
    (lcols \cap rcols) \ (IF left_on = right_on THEN {left_on} ELSE {})

Suffixed(c, overlap, suffix) == IF c \in overlap THEN c \o suffix ELSE c

MergedCols(lcols, rcols, left_on, right_on, lsuffix, rsuffix) ==
    LET ov == Overlap(lcols, rcols, left_on, right_on)
    IN  { Suffixed(c, ov, lsuffix) : c \in lcols } \cup
        { Suffixed(c, ov, rsuffix) : c \in rcols }

\* one row of the merged table from a left row and a right row; a side that
\* is absent (an outer row) contributes NaN, except to a shared key column
MergedRow(l, r, haveL, haveR, lcols, rcols, left_on, right_on, lsuffix, rsuffix) ==
    LET ov == Overlap(lcols, rcols, left_on, right_on)
    IN  [ n \in MergedCols(lcols, rcols, left_on, right_on, lsuffix, rsuffix) |->
            IF \E c \in lcols : Suffixed(c, ov, lsuffix) = n
            THEN LET c == CHOOSE c \in lcols : Suffixed(c, ov, lsuffix) = n
                 IN  IF haveL THEN l[c]
                     ELSE IF c = left_on /\ left_on = right_on THEN r[c]
                     ELSE NaN
            ELSE LET c == CHOOSE c \in rcols : Suffixed(c, ov, rsuffix) = n
                 IN  IF haveR THEN r[c] ELSE NaN ]

\* left.merge(right, how=how, left_on=left_on, right_on=right_on,
\*            suffixes=(lsuffix, rsuffix)); a missing key column is a KeyError.
\* Equal keys match, NaN keys included.  Rows come in the order of the left
\* table (of the right table for how='right'); an outer join appends the
\* right-only rows.
Merge(left, right, how, left_on, right_on, lsuffix, rsuffix) ==
    IF left_on \notin left.cols \/ right_on \notin right.cols
    THEN [ok |-> FALSE, df |-> Table({}, <<>>)]
    ELSE
    LET Row(l, r, hl, hr) ==
            MergedRow(l, r, hl, hr, left.cols, right.cols,
                      left_on, right_on, lsuffix, rsuffix)
        RightOf(l) ==
            LET Same(r) == r[right_on] = l[left_on] IN SelectSeq(right.rows, Same)
        LeftOf(r) ==
            LET Same(l) == l[left_on] = r[right_on] IN SelectSeq(left.rows, Same)
        FromLeft(keepAll) ==
            ConcatAll([ i \in 1..Len(left.rows) |->
                LET l == left.rows[i]
                    ms == RightOf(l)
                IN  IF Len(ms) = 0
                    THEN IF keepAll THEN <<Row(l, l, TRUE, FALSE)>> ELSE <<>>
                    ELSE [ j \in 1..Len(ms) |-> Row(l, ms[j], TRUE, TRUE) ] ])
        FromRight(keepAll, onlyUnmatched) ==
            ConcatAll([ j \in 1..Len(right.rows) |->
                LET r == right.rows[j]
                    ms == LeftOf(r)
                IN  IF Len(ms) = 0
                    THEN IF keepAll THEN <<Row(r, r, FALSE, TRUE)>> ELSE <<>>
                    ELSE IF onlyUnmatched THEN <<>>
                    ELSE [ i \in 1..Len(ms) |-> Row(ms[i], r, TRUE, TRUE) ] ])
        rows == CASE how = "inner" -> FromLeft(FALSE)
                  [] how = "left"  -> FromLeft(TRUE)
                  [] how = "right" -> FromRight(TRUE, FALSE)
                  [] how = "outer" -> FromLeft(TRUE) \o FromRight(TRUE, TRUE)
    IN  [ok |-> TRUE,
         df |-> Table(MergedCols(left.cols, right.cols, left_on, right_on,
                                 lsuffix, rsuffix), rows)]

(***************************************************************************)
(* cbsa_to_fips and merge_to_geodf, in both modules that define them.      *)
(***************************************************************************)
\* cbsa_to_fips(msa_df, cbsa_var): preprocess.py joins the crosswalk inner
\* and suffixes the crosswalk's duplicates with "_omb"; choropleth.py joins
\* it left (every crosswalk row is kept) with pandas' default suffixes
cbsa_to_fips(module, crosswalk, msa_df, cbsa_var) ==
    IF module = "preprocess"
    THEN Merge(crosswalk, msa_df, "inner", "cbsa", cbsa_var, "_omb", "")
    ELSE Merge(crosswalk, msa_df, "left", "cbsa", cbsa_var, "_x", "_y")

\* the property of the geojson to merge on
shape_geoid ==
    [state  |-> [fips |-> "fips_state", name |-> "name", abbrev |-> "iso_3166_2"],
     county |-> [fips |-> "fips", name |-> "name"]]

\* file_or_df[geoid_var] = file_or_df[geoid_var].apply(strip_name)
NormalizeColumn(df, col) ==
    Table(df.cols,
          [ i \in 1..Len(df.rows) |->
              [ df.rows[i] EXCEPT ![col] = strip_name(@, RemoveNone) ] ])

\* no_shape with the operands of the difference exchanged
NoShapeSetExchanged(file, joined, geoid_var) ==
    ColumnSet(joined, geoid_var) \ ColumnSet(file, geoid_var)

\* no_shape without the difference
NoShapeSetOfAll(file, joined, geoid_var) == ColumnSet(file, geoid_var)

\* no_shape = set(file_or_df[geoid_var]) - set(geo_df[geoid_var])
NoShapeSet(file, joined, geoid_var) ==
    ColumnSet(file, geoid_var) \ ColumnSet(joined, geoid_var)

\* the suffix the boundary side's duplicate columns get
ShapeSuffix(module) == IF module = "preprocess" THEN "_shape" ELSE "ori"

Failed(callers) ==
    [status |-> "error", callers |-> callers, local |-> Table({}, <<>>),
     geo_df |-> Table({}, <<>>), no_shape |-> {}]

\* merge_to_geodf(shape_df, file_or_df, geoid_var, geoid_type, geolvl, how_merge).
\* callers is the caller's table after the call (the same object as the
\* argument unless the argument was a csv path), local the table that is
\* joined.
merge_to_geodf(module, crosswalk, shape, file, is_path, geoid_var, geoid_type, geolvl, how_merge) ==
    LET normalized == IF geoid_type = "name" THEN NormalizeColumn(file, geoid_var)
                      ELSE file
        callers    == IF is_path THEN file ELSE normalized
        expanded   == cbsa_to_fips(module, crosswalk, file, geoid_var)
        var        == IF geoid_type = "cbsa" THEN "fips" ELSE geoid_var
        type       == IF geoid_type = "cbsa" THEN "fips" ELSE geoid_type
        local      == IF geoid_type = "cbsa" THEN expanded.df ELSE normalized
    IN  IF geoid_type = "name" /\ geoid_var \notin file.cols
        THEN Failed(file)
        ELSE IF geoid_type = "cbsa" /\ ~expanded.ok
        THEN Failed(callers)
        ELSE IF geolvl \notin DOMAIN shape_geoid
        THEN Failed(callers)
        ELSE IF type \notin DOMAIN shape_geoid[geolvl]
        THEN Failed(callers)
        ELSE
        LET merged == Merge(shape, local, how_merge, shape_geoid[geolvl][type],
                            var, ShapeSuffix(module), "")
        IN  IF ~merged.ok THEN Failed(callers)
            ELSE [status |-> "ok", callers |-> callers, local |-> local,
                  geo_df |-> merged.df,
                  no_shape |-> NoShapeSet(local, merged.df, var)]

(***************************************************************************)
(* params.py: the palette library, get_palette_colors and the palette      *)
(* table built when the module is loaded.                                  *)
(***************************************************************************)
Families == {"sequential", "sequential_single", "divergent", "categorical"}

palette_dict ==
    [sequential        |-> <<"RdPu", "YlGnBu", "YlOrRd">>,
     sequential_single |-> <<"Blues", "Greens", "Purples">>,
     divergent         |-> <<"BrBG", "RdBu", "PiYG">>,
     categorical       |-> <<"Dark2_", "Set1_", "Set3_">>]

max_n == [sequential |-> 9, sequential_single |-> 9, divergent |-> 11,
          categorical |-> 8]

\* what `from bokeh.palettes import *` brings into the namespace eval reads:
\* for each of these names the palettes <name>3 .. <name><largest>
LibraryMax ==
    [RdPu |-> 9, YlGnBu |-> 9, YlOrRd |-> 9, Blues |-> 9, Greens |-> 9,
     Purples |-> 9, BrBG |-> 11, RdBu |-> 11, PiYG |-> 11, Dark2_ |-> 8,
     Set1_ |-> 9, Set3_ |-> 12]

\* a color: the index-th hex code of the library's palette <palette><size>
Color(palette, size, index) == [palette |-> palette, size |-> size, index |-> index]
\* the custom locus color
Locus == Color("#0a3959", 0, 0)

LibraryPalette(label, n) == [ i \in 1..n |-> Color(label, n, i) ]

Reverse(s) == [ i \in 1..Len(s) |-> s[Len(s) + 1 - i] ]

\* formatting['palette']: the name of a palette or a rank
ByName(label) == [is_rank |-> FALSE, rank |-> 0, label |-> label]
ByRank(rank) == [is_rank |-> TRUE, rank |-> rank, label |-> ""]

\* get_palette_colors without the reverse()
get_palette_colors_unreversed(palette_label, ncolors) ==
    IF /\ ~palette_label.is_rank
       /\ palette_label.label \in DOMAIN LibraryMax
       /\ ncolors \in 3..LibraryMax[palette_label.label]
    THEN [ok |-> TRUE, colors |-> LibraryPalette(palette_label.label, ncolors)]
    ELSE [ok |-> FALSE, colors |-> <<>>]

\* get_palette_colors(palette_label, ncolors): eval of the name gives the
\* library's palette (a NameError when the library has none of that name);
\* a rank evals to a number, which has no copy() (an AttributeError)
get_palette_colors(palette_label, ncolors) ==
    IF /\ ~palette_label.is_rank
       /\ palette_label.label \in DOMAIN LibraryMax
       /\ ncolors \in 3..LibraryMax[palette_label.label]
    THEN [ok |-> TRUE,
          colors |-> Reverse(LibraryPalette(palette_label.label, ncolors))]
    ELSE [ok |-> FALSE, colors |-> <<>>]

\* the families in the order the load goes through them
FamilyOrder == <<"sequential", "sequential_single", "divergent", "categorical">>

\* the number of lists the load makes for the families before the k-th
RECURSIVE ListsBefore(_)
ListsBefore(k) ==
    IF k = 1 THEN 0
    ELSE ListsBefore(k - 1) + 3 * (max_n[FamilyOrder[k - 1]] - 2)

FamilyIndex(ptype) == CHOOSE k \in 1..Len(FamilyOrder) : FamilyOrder[k] = ptype

\* the list object `palette` of one turn of the loop, named by its place in
\* the order the lists are made; the heap holds the lists by that name
ListObject(ptype, rank, n) ==
    ListsBefore(FamilyIndex(ptype)) + (rank - 1) * (max_n[ptype] - 2) + (n - 2)

\* PALETTES = {ptype: {label: {n: palette}, rank: {n: palette}}}: by_label
\* and by_rank are the entries under the two kinds of key; the entry under a
\* label and the entry under its rank hold the same list object
LoadedTable ==
    [ ptype \in Families |->
        [by_label |->
            [ label \in { palette_dict[ptype][r] : r \in 1..3 } |->
                [ n \in 3..max_n[ptype] |->
                    ListObject(ptype,
                               CHOOSE r \in 1..3 : palette_dict[ptype][r] = label, n) ] ],
         by_rank |->
            [ r \in 1..3 |-> [ n \in 3..max_n[ptype] |-> ListObject(ptype, r, n) ] ] ] ]

\* palette = get_palette_colors(label, n), for every turn of the loop
LoadedHeap ==
    [ o \in 1..ListsBefore(Len(FamilyOrder) + 1) |->
        LET at == CHOOSE t \in [ptype : Families, rank : 1..3, n : 3..11] :
                      /\ t.n <= max_n[t.ptype]
                      /\ ListObject(t.ptype, t.rank, t.n) = o
        IN  get_palette_colors(ByName(palette_dict[at.ptype][at.rank]), at.n).colors ]

\* the custom color written to the lists of rank 1 instead of rank 2
CustomLocusFirstRank(table, objects) ==
    LET touched == { table["sequential"].by_rank[1][i] :
                        i \in DOMAIN table["sequential"].by_rank[1] }
    IN  [ o \in DOMAIN objects |->
            IF o \in touched
            THEN [ objects[o] EXCEPT ![Len(objects[o])] = Locus ]
            ELSE objects[o] ]

\* for i in PALETTES['sequential'][2]: PALETTES['sequential'][2][i][-1] = '#0a3959'
CustomLocus(table, objects) ==
    LET touched == { table["sequential"].by_rank[2][i] :
                        i \in DOMAIN table["sequential"].by_rank[2] }
    IN  [ o \in DOMAIN objects |->
            IF o \in touched
            THEN [ objects[o] EXCEPT ![Len(objects[o])] = Locus ]
            ELSE objects[o] ]

(***************************************************************************)
(* choropleth.py: make_color_mapper.                                       *)
(***************************************************************************)
\* a value of the plotted column: a number or the missing value (float nan)
Num(x) == [nan |-> FALSE, x |-> x]
Missing == [nan |-> TRUE, x |-> 0]

\* a < b on floats: every comparison with nan is false
Less(a, b) == ~a.nan /\ ~b.nan /\ a.x < b.x

\* the builtin min(values) and max(values): the first value, replaced by
\* each later value that compares less (greater)
RECURSIVE PyMin(_, _)
PyMin(values, k) ==
    IF k = 1 THEN values[1]
    ELSE LET m == PyMin(values, k - 1)
         IN  IF Less(values[k], m) THEN values[k] ELSE m

RECURSIVE PyMax(_, _)
PyMax(values, k) ==
    IF k = 1 THEN values[1]
    ELSE LET m == PyMax(values, k - 1)
         IN  IF Less(m, values[k]) THEN values[k] ELSE m

NoMapper == [palette |-> <<>>, low |-> Missing, high |-> Missing, kind |-> ""]

\* COLORS[y_type][formatting['palette']][formatting['ncolors']], a KeyError
\* when a key is missing; the list object is read from the heap
TableLookup(table, objects, ptype, selector, ncolors) ==
    LET entries == IF selector.is_rank THEN table[ptype].by_rank
                   ELSE table[ptype].by_label
        key == IF selector.is_rank THEN selector.rank ELSE selector.label
    IN  IF key \in DOMAIN entries /\ ncolors \in DOMAIN entries[key]
        THEN [ok |-> TRUE, colors |-> objects[entries[key][ncolors]]]
        ELSE [ok |-> FALSE, colors |-> <<>>]

\* make_color_mapper(y_values, y_type, formatting)
make_color_mapper(table, objects, values, ptype, fmt) ==
    IF Len(values) = 0
    THEN [ok |-> FALSE, mapper |-> NoMapper]
    ELSE
    LET c_min == IF fmt.has_min THEN Num(fmt.cbar_min) ELSE PyMin(values, Len(values))
        c_max == IF fmt.has_max THEN Num(fmt.cbar_max) ELSE PyMax(values, Len(values))
        found == TableLookup(table, objects, ptype, fmt.palette, fmt.ncolors)
        palette == IF found.ok THEN found
                   ELSE get_palette_colors(fmt.palette, fmt.ncolors)
    IN  IF ~palette.ok
        THEN [ok |-> FALSE, mapper |-> NoMapper]
        ELSE [ok |-> TRUE,
              mapper |-> [palette |-> palette.colors, low |-> c_min, high |-> c_max,
                          kind |-> fmt.lin_or_log]]

(***************************************************************************)
(* The inputs of the model.                                                *)
(***************************************************************************)
Names == UNION { [1..n -> Alphabet] : n \in 0..MaxNameLen }

Removes == { RemoveNone, RemoveList({<<"c">>}), RemoveList({<<"c">>, <<"i","t">>}) }

\* boundary records, by position in the boundary file
CountyFips  == <<"01001", "01003", "01005", "01007", "01009">>
StateFips   == <<"01", "02", "04", "05", "06">>
StateIso    == <<"AL", "AK", "AZ", "AR", "CA">>
PlaceName   == << <<"c">>, <<"i">>, <<"c">>, <<"t">>, <<"i">> >>
Geometry    == <<"g1", "g2", "g3", "g4", "g5">>
ValueCells  == <<"10", "20", "30", "40">>
CbsaOf      == <<"10100", "10100", "10140", "10140", "10180">>

CountyRow(k) ==
    [fips |-> <<CountyFips[k]>>, name |-> PlaceName[k], geometry |-> <<Geometry[k]>>]
StateRow(k) ==
    [fips_state |-> <<StateFips[k]>>, name |-> PlaceName[k],
     iso_3166_2 |-> <<StateIso[k]>>, geometry |-> <<Geometry[k]>>]
OmbRow(k) == [cbsa |-> <<CbsaOf[k]>>, fips |-> <<CountyFips[k]>>]

\* shape_geojson('county') / shape_geojson('state'), the first n records
CountyShapes(n) == Table({"fips", "name", "geometry"}, [k \in 1..n |-> CountyRow(k)])
StateShapes(n) ==
    Table({"fips_state", "name", "iso_3166_2", "geometry"}, [k \in 1..n |-> StateRow(k)])
\* data/external/omb_msa_2017.csv, the first n records
Crosswalk(n) == Table({"cbsa", "fips"}, [k \in 1..n |-> OmbRow(k)])

Levels == {"county", "state"}
Scenarios ==
    { sc \in [level : Levels, type : {"fips", "name", "abbrev", "cbsa"},
              var : {"id", "fips"}, own_fips : BOOLEAN] :
        /\ sc.level = "county" => sc.type # "abbrev"
        /\ sc.level = "state" => sc.type # "cbsa"
        /\ sc.own_fips => sc.var = "id" }

\* the identifiers a caller's table may hold: two that have a boundary (a
\* name with its legal suffix still on) and one that has none
Identifiers(sc) ==
    CASE sc.type = "fips" /\ sc.level = "county" ->
            { <<"01001">>, <<"01005">>, <<"01999">> }
      [] sc.type = "fips" /\ sc.level = "state" -> { <<"01">>, <<"02">>, <<"99">> }
      [] sc.type = "name" ->
            { <<"c"," ","c","i","t","y">>, <<"i">>, <<"y"," ","C","i","t","y">> }
      [] sc.type = "abbrev" -> { <<"AL">>, <<"AK">>, <<"ZZ">> }
      [] sc.type = "cbsa" -> { <<"10100">>, <<"10140">>, <<"99999">> }

\* the caller's table: the identifier column, a value column and, for some
\* callers, a column of their own that is named fips
AttributeTable(sc, ids) ==
    Table({sc.var, "v"} \cup (IF sc.own_fips THEN {"fips"} ELSE {}),
          [ i \in 1..Len(ids) |->
              [ c \in {sc.var, "v"} \cup (IF sc.own_fips THEN {"fips"} ELSE {}) |->
                  IF c = sc.var THEN ids[i]
                  ELSE IF c = "v" THEN <<ValueCells[i]>>
                  ELSE <<CountyFips[2]>> ] ])

NoCall == [module |-> "", geoid_var |-> "", geoid_type |-> "", geolvl |-> "",
           how_merge |-> ""]

Calls(sc) ==
    { c \in [module : {"preprocess", "choropleth"}, geoid_var : {sc.var},
             geoid_type : {sc.type, "zip"}, geolvl : {"county", "state", "tract"},
             how_merge : {"inner", "left", "right", "outer"}] :
        c.module = "preprocess" => c.how_merge = "inner" }

EmptyTable == Table({}, <<>>)

NameOff ==
    /\ name = <<>> /\ remove = RemoveNone /\ stripped = <<>> /\ name_pc = "off"
JoinOff ==
    /\ shape_df = EmptyTable /\ file_or_df = EmptyTable /\ from_csv = FALSE
    /\ omb = EmptyTable /\ scenario = [level |-> "", type |-> "", var |-> "",
                                       own_fips |-> FALSE]
    /\ call = NoCall /\ local_df = EmptyTable /\ fips_df = EmptyTable
    /\ geo_df = EmptyTable /\ no_shape = {} /\ geo_df2 = EmptyTable
    /\ no_shape2 = {} /\ join_pc = "off"
ScaleOff ==
    /\ PALETTES = <<>> /\ heap = <<>> /\ y_values = <<>> /\ y_type = ""
    /\ formatting = <<>> /\ mapper = <<>> /\ scale_pc = "off"

(***************************************************************************)
(* strip_name as a state machine: a name and a suffix list, then the call. *)
(***************************************************************************)
InitName ==
    /\ name \in Names
    /\ remove \in Removes
    /\ stripped = <<>>
    /\ name_pc = "call"
    /\ JoinOff /\ ScaleOff

StripName ==
    /\ name_pc = "call"
    /\ stripped' = strip_name(name, remove)
    /\ name_pc' = "done"
    /\ UNCHANGED <<name, remove, joinVars, scaleVars>>

NextName == StripName

SpecName == InitName /\ [][NextName]_vars

(***************************************************************************)
(* The join as a state machine: a boundary table, a crosswalk and a        *)
(* caller's table, then one call of cbsa_to_fips or of merge_to_geodf, and *)
(* after a join on FIPS codes a second join of the identifiers it returned.*)
(***************************************************************************)
InitJoin ==
    /\ scenario \in Scenarios
    /\ \E n \in 0..MaxShapes :
          shape_df = IF scenario.level = "county" THEN CountyShapes(n)
                     ELSE StateShapes(n)
    /\ \E n \in 1..MaxOmb :
          /\ scenario.type # "cbsa" => n = MaxOmb
          /\ omb = Crosswalk(n)
    /\ \E n \in 0..MaxRows : \E ids \in [1..n -> Identifiers(scenario)] :
          file_or_df = AttributeTable(scenario, ids)
    /\ from_csv \in BOOLEAN
    /\ call = NoCall /\ local_df = EmptyTable /\ fips_df = EmptyTable
    /\ geo_df = EmptyTable /\ no_shape = {} /\ geo_df2 = EmptyTable
    /\ no_shape2 = {} /\ join_pc = "idle"
    /\ NameOff /\ ScaleOff

CbsaToFips ==
    /\ join_pc = "idle"
    /\ scenario.type = "cbsa"
    /\ \E m \in {"preprocess", "choropleth"} :
          LET res == cbsa_to_fips(m, omb, file_or_df, scenario.var)
          IN  /\ call' = [NoCall EXCEPT !.module = m, !.geoid_var = scenario.var]
              /\ fips_df' = res.df
              /\ join_pc' = IF res.ok THEN "expanded" ELSE "error"
    /\ UNCHANGED <<shape_df, file_or_df, from_csv, omb, scenario, local_df, geo_df,
                   no_shape, geo_df2, no_shape2, nameVars, scaleVars>>

MergeToGeodf ==
    /\ join_pc = "idle"
    /\ \E c \in Calls(scenario) :
          LET res == merge_to_geodf(c.module, omb, shape_df, file_or_df, from_csv,
                                    c.geoid_var, c.geoid_type, c.geolvl, c.how_merge)
          IN  /\ call' = c
              /\ file_or_df' = res.callers
              /\ local_df' = res.local
              /\ geo_df' = res.geo_df
              /\ no_shape' = res.no_shape
              /\ join_pc' = res.status
    /\ UNCHANGED <<shape_df, from_csv, omb, scenario, fips_df, geo_df2, no_shape2,
                   nameVars, scaleVars>>

\* the identifiers of the rows a join returned, as a table of their own
IdentifiersOf(df, var) ==
    Table({var}, [ i \in 1..Len(df.rows) |-> [ c \in {var} |-> df.rows[i][var] ] ])

Rejoin ==
    /\ join_pc = "ok"
    /\ call.geoid_type = "fips"
    /\ LET res == merge_to_geodf(call.module, omb, shape_df,
                                 IdentifiersOf(geo_df, call.geoid_var), FALSE,
                                 call.geoid_var, "fips", call.geolvl, call.how_merge)
       IN  /\ geo_df2' = res.geo_df
           /\ no_shape2' = res.no_shape
           /\ join_pc' = IF res.status = "ok" THEN "rejoined" ELSE "error"
    /\ UNCHANGED <<shape_df, file_or_df, from_csv, omb, scenario, call, local_df,
                   fips_df, geo_df, no_shape, nameVars, scaleVars>>

NextJoin == CbsaToFips \/ MergeToGeodf \/ Rejoin

SpecJoin == InitJoin /\ [][NextJoin]_vars

(***************************************************************************)
(* The color mapper as a state machine: params.py is loaded, then          *)
(* make_color_mapper is called on a column of values and a formatting.     *)
(***************************************************************************)
PlottedValues == { Missing, Num(0), Num(1) }
CbarBounds == {0, 1}
Selectors ==
    { ByRank(r) : r \in 0..4 } \cup
    { ByName(label) : label \in DOMAIN LibraryMax \cup {"jet"} }
ColorCounts == 2..13

\* a formatting without 'cbar_min' ('cbar_max') is written with the bound 0
Formattings ==
    { fmt \in [has_min : BOOLEAN, cbar_min : CbarBounds, has_max : BOOLEAN,
               cbar_max : CbarBounds, palette : Selectors, ncolors : ColorCounts,
               lin_or_log : {"lin", "log"}] :
        /\ ~fmt.has_min => fmt.cbar_min = 0
        /\ ~fmt.has_max => fmt.cbar_max = 0 }

NoFormatting ==
    [has_min |-> FALSE, cbar_min |-> 0, has_max |-> FALSE, cbar_max |-> 0,
     palette |-> ByRank(0), ncolors |-> 0, lin_or_log |-> ""]

InitScale ==
    /\ PALETTES = <<>> /\ heap = <<>>
    /\ y_values = <<>> /\ y_type = "" /\ formatting = NoFormatting
    /\ mapper = NoMapper
    /\ scale_pc = "import"
    /\ NameOff /\ JoinOff

\* the module-level statements of params.py
LoadParams ==
    /\ scale_pc = "import"
    /\ PALETTES' = LoadedTable
    /\ heap' = CustomLocus(LoadedTable, LoadedHeap)
    /\ scale_pc' = "loaded"
    /\ UNCHANGED <<y_values, y_type, formatting, mapper, nameVars, joinVars>>

MakeColorMapper ==
    /\ scale_pc = "loaded"
    /\ \E n \in 0..MaxValues : \E values \in [1..n -> PlottedValues] :
       \E ptype \in Families : \E fmt \in Formattings :
          LET res == make_color_mapper(PALETTES, heap, values, ptype, fmt)
          IN  /\ y_values' = values
              /\ y_type' = ptype
              /\ formatting' = fmt
              /\ mapper' = res.mapper
              /\ scale_pc' = IF res.ok THEN "ok" ELSE "error"
    /\ UNCHANGED <<PALETTES, heap, nameVars, joinVars>>

NextScale == LoadParams \/ MakeColorMapper

SpecScale == InitScale /\ [][NextScale]_vars

(***************************************************************************)
(* Properties of strip_name.                                               *)
(***************************************************************************)
\* the whitespace-separated tokens of a name (the alphabet's only
\* whitespace is the space)
Tokens(nm) == LET NonEmpty(w) == Len(w) > 0 IN SelectSeq(Split(nm), NonEmpty)

SuffixSet(rem) == IF rem.is_none THEN LSAD ELSE rem.items

\* the name without its last token, the other tokens joined by single spaces
WithoutLastToken(nm) ==
    LET t == Tokens(nm) IN Join(SubSeq(t, 1, Len(t) - 1))

\* C2: strip_name returns the name without its last whitespace-separated
\* token, the remaining tokens joined by single spaces, when that token
\* lower-cased is in the suffix set, and the name itself otherwise; names
\* with trailing or repeated spaces included.
C2_StripsLastToken ==
    name_pc = "done" =>
        LET t == Tokens(name)
        IN  stripped = IF Len(t) > 0 /\ Lower(t[Len(t)]) \in SuffixSet(remove)
                       THEN WithoutLastToken(name)
                       ELSE name

(***************************************************************************)
(* Properties of cbsa_to_fips and merge_to_geodf.                          *)
(***************************************************************************)
Rows(df) == { df.rows[i] : i \in 1..Len(df.rows) }

RECURSIVE SumOver(_, _)
SumOver(f, n) == IF n = 0 THEN 0 ELSE f[n] + SumOver(f, n - 1)

\* the number of counties the crosswalk maps a CBSA code to
CountiesOf(code) == Cardinality({ k \in 1..Len(omb.rows) : omb.rows[k].cbsa = code })

\* C3: the number of rows cbsa_to_fips returns is the sum, over the input
\* rows, of the number of counties the crosswalk maps the row's CBSA code
\* to; codes of the crosswalk that are not in the input add no row.
C3_ExpandedRowCount ==
    join_pc = "expanded" =>
        Len(fips_df.rows) =
            SumOver([ i \in 1..Len(file_or_df.rows) |->
                        CountiesOf(file_or_df.rows[i][call.geoid_var]) ],
                    Len(file_or_df.rows))

\* the column and the boundary field the join of the last call was made on
JoinVar == IF call.geoid_type = "cbsa" THEN "fips" ELSE call.geoid_var
JoinType == IF call.geoid_type = "cbsa" THEN "fips" ELSE call.geoid_type
JoinKey == shape_geoid[call.geolvl][JoinType]

HasBoundary(id) == \E b \in Rows(shape_df) : b[JoinKey] = id

\* every joined row carries the geometry of a boundary whose key is the
\* row's identifier
RowsCarryTheirBoundary ==
    \A r \in Rows(geo_df) :
        \E b \in Rows(shape_df) : b.geometry = r.geometry /\ b[JoinKey] = r[JoinVar]

\* the identifiers a caller's row is joined under: its FIPS code or
\* abbreviation, its normalised name, the counties of its CBSA code
JoinedIdentifiers(a) ==
    CASE call.geoid_type = "name" -> { strip_name(a[call.geoid_var], RemoveNone) }
      [] call.geoid_type = "cbsa" ->
            { o.fips : o \in { o \in Rows(omb) : o.cbsa = a[call.geoid_var] } }
      [] OTHER -> { a[call.geoid_var] }

\* C1 as stated: after an inner join every joined row carries the geometry
\* of a boundary whose key is the row's identifier, and every row of the
\* caller's table that matches no boundary is absent from the joined table
\* and has its identifier in the reported set: none is unmatched and
\* unreported.  (Stated of the callers whose table has no column named fips,
\* where the column collision of C8 plays no part.)
C1_UnmatchedCallerRowsReported ==
    (join_pc = "ok" /\ call.how_merge = "inner" /\ "fips" \notin file_or_df.cols) =>
        /\ RowsCarryTheirBoundary
        /\ \A a \in Rows(file_or_df) :
              (\A id \in JoinedIdentifiers(a) : ~HasBoundary(id)) =>
                  /\ JoinedIdentifiers(a) # {}
                  /\ JoinedIdentifiers(a) \subseteq no_shape
                  /\ JoinedIdentifiers(a) \cap ColumnSet(geo_df, JoinVar) = {}

\* C1 as amended: the same of the rows of the table that is joined (the
\* caller's table, its names normalised, or its CBSA expansion); for the
\* identifier types other than cbsa these are the caller's rows, one for one.
C1_UnmatchedJoinedRowsReported ==
    (join_pc = "ok" /\ call.how_merge = "inner") =>
        /\ RowsCarryTheirBoundary
        /\ \A t \in Rows(local_df) :
              ~HasBoundary(t[JoinVar]) =>
                  /\ t[JoinVar] \in no_shape
                  /\ t[JoinVar] \notin ColumnSet(geo_df, JoinVar)
        /\ \A id \in no_shape : ~HasBoundary(id)
        /\ call.geoid_type # "cbsa" =>
              /\ Len(local_df.rows) = Len(file_or_df.rows)
              /\ \A i \in 1..Len(file_or_df.rows) :
                    {local_df.rows[i][JoinVar]} = JoinedIdentifiers(file_or_df.rows[i])

C1_Witness ==
    /\ join_pc = "ok" /\ call.how_merge = "inner"
    /\ call.geoid_type = "name"
    /\ Len(geo_df.rows) > 0
    /\ no_shape # {}

\* C7: joining on FIPS codes, then joining the identifiers of the returned
\* rows against the same boundaries, returns rows with the same set of
\* identifiers and reports nothing unmatched.
C7_RejoinSameMatchedSet ==
    join_pc = "rejoined" =>
        /\ ColumnSet(geo_df2, call.geoid_var) = ColumnSet(geo_df, call.geoid_var)
        /\ no_shape2 = {}

C7_Witness ==
    /\ join_pc = "rejoined"
    /\ call.how_merge = "inner"
    /\ Len(geo_df.rows) > 0
    /\ no_shape # {}

\* C8: after an inner join with identifier type cbsa, the boundary a joined
\* row carries is a county the crosswalk maps the row's CBSA code (the code
\* the expansion put on the row) to, whatever columns the caller's table has.
C8_JoinedCountyBelongsToCbsa ==
    (join_pc = "ok" /\ call.geoid_type = "cbsa" /\ call.how_merge = "inner") =>
        \A r \in Rows(geo_df) : \A b \in Rows(shape_df) :
            b.geometry = r.geometry =>
                \E o \in Rows(omb) : o.cbsa = r.cbsa /\ o.fips = b.fips

\* C9: no step of a call changes the boundary table or the caller's table,
\* whether the call returns or aborts.
C9_TablesUnchanged ==
    [][shape_df' = shape_df /\ file_or_df' = file_or_df]_vars

(***************************************************************************)
(* Properties of make_color_mapper and of the palette table.               *)
(***************************************************************************)
Called == scale_pc \in {"ok", "error"}

\* the numbers among the plotted values
NonMissing == { y_values[i].x : i \in { i \in 1..Len(y_values) : ~y_values[i].nan } }

Least(S) == CHOOSE x \in S : \A y \in S : x <= y
Greatest(S) == CHOOSE x \in S : \A y \in S : y <= x

\* the palette is one the table or the library has for the formatting
PaletteResolves ==
    \/ TableLookup(PALETTES, heap, y_type, formatting.palette, formatting.ncolors).ok
    \/ get_palette_colors(formatting.palette, formatting.ncolors).ok

\* C4: the scale's low is cbar_min when the caller supplied it and the
\* least non-missing value otherwise, its high is cbar_max when supplied and
\* the greatest non-missing value otherwise; supplied bounds are used also
\* when the values hold missing entries or are empty.
C4_BoundsOverrideOrExtremes ==
    /\ scale_pc = "ok" =>
          /\ formatting.has_min => mapper.low = Num(formatting.cbar_min)
          /\ formatting.has_max => mapper.high = Num(formatting.cbar_max)
          /\ (~formatting.has_min /\ NonMissing # {}) =>
                mapper.low = Num(Least(NonMissing))
          /\ (~formatting.has_max /\ NonMissing # {}) =>
                mapper.high = Num(Greatest(NonMissing))
    /\ (Called /\ formatting.has_min /\ formatting.has_max /\ PaletteResolves) =>
          scale_pc = "ok"

\* C5: no scale is returned whose low is above its high, nor a logarithmic
\* one whose low is not strictly positive.
C5_InvalidDomainFails ==
    scale_pc = "ok" =>
        /\ ~Less(mapper.high, mapper.low)
        /\ formatting.lin_or_log = "log" => Less(Num(0), mapper.low)

\* the selector names a palette of the requested family, or is a rank
InFamily ==
    \/ formatting.palette.is_rank
    \/ formatting.palette.label \in { palette_dict[y_type][r] : r \in 1..3 }

ValidRank == formatting.palette.is_rank => formatting.palette.rank \in 1..3

SelectedLabel ==
    IF formatting.palette.is_rank THEN palette_dict[y_type][formatting.palette.rank]
    ELSE formatting.palette.label

\* the call resolves a palette of the requested family from a supported
\* color count
SupportedPalette ==
    /\ scale_pc = "ok"
    /\ InFamily /\ ValidRank
    /\ formatting.ncolors \in 3..max_n[y_type]

\* C6 as stated: the palette resolved for a family's palette, selected by
\* name or by rank 1..3, and a color count k from 3 to the family's maximum
\* is the library's palette of that name and size, reversed (so of length k).
C6_ReversedLibraryPalette ==
    SupportedPalette =>
        mapper.palette = Reverse(LibraryPalette(SelectedLabel, formatting.ncolors))

\* C6 as amended: the same, except that the sequential palette YlGnBu
\* (rank 2) has the custom color as its last color.
C6_ReversedLibraryPaletteButLocus ==
    SupportedPalette =>
        LET k == formatting.ncolors
            reversed == Reverse(LibraryPalette(SelectedLabel, k))
        IN  /\ Len(mapper.palette) = k
            /\ mapper.palette =
                  IF y_type = "sequential" /\ SelectedLabel = "YlGnBu"
                  THEN [ reversed EXCEPT ![k] = Locus ]
                  ELSE reversed

C6_Witness ==
    /\ SupportedPalette
    /\ y_type = "sequential"
    /\ formatting.palette = ByName("YlGnBu")
    /\ formatting.ncolors = 9
    /\ mapper.palette[9] = Locus
    /\ mapper.palette[1] = Color("YlGnBu", 9, 9)

\* C10: for a palette of the requested family, the call fails when the color
\* count is outside 3 .. the family's maximum or the rank outside 1..3, and a
\* palette it returns has a length within the family's range.
C10_UnsupportedCountOrRankFails ==
    (Called /\ InFamily) =>
        /\ (formatting.ncolors \notin 3..max_n[y_type] \/ ~ValidRank) =>
              scale_pc = "error"
        /\ scale_pc = "ok" => Len(mapper.palette) \in 3..max_n[y_type]

\* params.py has been loaded
Loaded == scale_pc # "import"

\* the entry under a palette's rank and the entry under its name are the
\* same list, for every family and color count; the lists of the sequential
\* palette of rank 2, YlGnBu, of the color counts 3..9 end in the custom
\* color, and every other list is the library's palette, reversed
OneOverriddenPalette ==
    /\ DOMAIN PALETTES["sequential"].by_rank[2] = 3..9
    /\ \A ptype \in Families : \A r \in 1..3 : \A n \in 3..max_n[ptype] :
          LET label  == palette_dict[ptype][r]
              byRank == TableLookup(PALETTES, heap, ptype, ByRank(r), n)
              byName == TableLookup(PALETTES, heap, ptype, ByName(label), n)
          IN  /\ byRank.ok /\ byName.ok
              /\ PALETTES[ptype].by_rank[r][n] = PALETTES[ptype].by_label[label][n]
              /\ byRank.colors = byName.colors
              /\ IF ptype = "sequential" /\ r = 2
                 THEN /\ label = "YlGnBu"
                      /\ byRank.colors[n] = Locus
                      /\ byName.colors[n] = Locus
                 ELSE byRank.colors = Reverse(LibraryPalette(label, n))

\* C11: in the palette table built at load, the entry under a palette's rank
\* and the entry under its name are the same palette, for every family and
\* color count; the sequential palette of rank 2, YlGnBu, has the custom
\* color as its last color for every color count 3..9 under both keys, and
\* every entry of every other palette is the library's palette of that name
\* and size, reversed. The table is so when the load ends, and no call
\* changes the table or its lists afterwards.
C11_OneOverriddenPalette ==
    /\ [](scale_pc = "loaded" => OneOverriddenPalette)
    /\ [][Loaded => (PALETTES' = PALETTES /\ heap' = heap)]_vars

C11_Witness ==
    /\ scale_pc = "loaded"
    /\ \A n \in 3..9 :
          /\ heap[PALETTES["sequential"].by_label["YlGnBu"][n]][n] = Locus
          /\ heap[PALETTES["sequential"].by_rank[2][n]][n] = Locus
    /\ heap[PALETTES["sequential"].by_rank[1][9]] = Reverse(LibraryPalette("RdPu", 9))
    /\ heap[PALETTES["categorical"].by_label["Set3_"][8]] = Reverse(LibraryPalette("Set3_", 8))

====
